---- MODULE Spec2Model ----
(***************************************************************************)
(* The executors of src/deploy/functions/release/executor.ts:              *)
(* QueueExecutor (over the throttler Queue), RateLimitedExecutor (over a   *)
(* PQueue) and InlineExecutor, with the handler and parseErrorCode they    *)
(* share.  One executor instance serves the run() calls 1..NumOps.         *)
(***************************************************************************)
EXTENDS Integers, Sequences, FiniteSets, TLC

\* ------------------------------------------------------------- bounds
NumOps == 2
MaxRetries == 1
MaxConcurrency == 2

Ops == 1..NumOps

\* ------------------------------------------------------------- values
\* JavaScript's undefined, for an optional field that is not there.
Undefined == -1

\* The value an unset op.result reads as.
NoResult == "undefined"

\* A reference to a failure object: <<run() call, number of the func
\* invocation that raised it>>; NoRef is "no object" (op.error unset).
NoRef == <<0, 0>>

DEFAULT_RETRY_CODES == {429, 409, 503}

\* opts?.retryCodes when the caller passes none.
NoOpts == {Undefined}

\* The failure shapes: the five fields parseErrorCode looks at, each absent
\* (Undefined) or a number.
Err(s, c, x, oc, ox) ==
    [status |-> s, code |-> c, contextStatusCode |-> x,
     originalCode |-> oc, originalContextStatusCode |-> ox]

FieldValues == {Undefined, 0, 404, 429}

AllErrors ==
    {Err(s, c, x, oc, ox) : s \in FieldValues, c \in FieldValues,
                            x \in FieldValues, oc \in FieldValues,
                            ox \in FieldValues}

NoCodeError == Err(Undefined, Undefined, Undefined, Undefined, Undefined)

\* ------------------------------------------------------------- inputs
\* What the func of run() call i resolves with: the calls' funcs are
\* independent, each with a value of its own ("ok1", "ok2", ...).
ValuesOf(i) == {"ok" \o ToString(i)}
Values == UNION {ValuesOf(i) : i \in 1..NumOps}

\* What the caller of run() number i passes as opts.retryCodes, and what its
\* func may raise.  Call 1 is explored in detail, call 2 with a retryable and
\* a non-retryable failure, any further call with a non-retryable failure.
OptsOf(i) == IF i = 1 THEN {NoOpts, {}, {404}, {0}} ELSE {NoOpts}

ErrorsOf(i) ==
    IF i = 1
    THEN {Err(429, Undefined, Undefined, Undefined, Undefined),
          Err(404, Undefined, Undefined, Undefined, Undefined),
          Err(404, 429, Undefined, Undefined, Undefined),
          Err(0, 429, Undefined, Undefined, Undefined),
          Err(Undefined, Undefined, Undefined, Undefined, 409),
          Err(0, Undefined, Undefined, Undefined, 0),
          NoCodeError}
    ELSE IF i = 2
         THEN {Err(429, Undefined, Undefined, Undefined, Undefined),
               Err(Undefined, 404, Undefined, Undefined, Undefined)}
         ELSE {Err(Undefined, 404, Undefined, Undefined, Undefined)}

\* ------------------------------------------------------------- pure code
\* JavaScript truthiness of a number-or-undefined.
Truthy(x) == x # Undefined /\ x # 0

\* a || b
Or(a, b) == IF Truthy(a) THEN a ELSE b

\* Variant: err.code is looked at before err.status.
parseErrorCodeCodeFirst(err) ==
    Or(err.code,
       Or(err.status,
          Or(err.contextStatusCode,
             Or(err.originalCode, err.originalContextStatusCode))))

parseErrorCode(err) ==
    Or(err.status,
       Or(err.code,
          Or(err.contextStatusCode,
             Or(err.originalCode, err.originalContextStatusCode))))

\* Variant: the caller's codes are added to the defaults.
retryCodesMerged(opts) ==
    IF opts = NoOpts THEN DEFAULT_RETRY_CODES
    ELSE DEFAULT_RETRY_CODES \cup opts

\* const retryCodes = opts?.retryCodes || DEFAULT_RETRY_CODES; an array, even
\* the empty one, is truthy.
retryCodes(opts) == IF opts = NoOpts THEN DEFAULT_RETRY_CODES ELSE opts

\* Variant: a failure without a code counts as retryable.
IncludesOrUndefined(codes, code) == code \in codes \/ code = Undefined

\* op.retryCodes.includes(code)
Includes(codes, code) == code \in codes

\* Variant: the code is not attached.
AnnotateNothing(err, code) == err

\* err.code = code
Annotate(err, code) == [err EXCEPT !.code = code]

\* ------------------------------------------------------------- state
VARIABLES
    exec,         \* which executor was constructed: "queue", "rate", "inline"
    retries,      \* options.retries (this.retries; the Queue's retries option)
    concurrency,  \* options.concurrency of the underlying queue
    pc,           \* where each run() call is
    op,           \* the Operation (RateLimitedOperation) of each run() call
    calls,        \* how many times each call's func has been invoked
    attempts,     \* the settled invocations of each call's func, in order,
                  \* with the failure object each raised
    thrown,       \* the failure the last handler(op) promise rejected with
    active,       \* queue slots held by each call's tasks
    waiting,      \* the calls whose task waits in the queue, oldest first
    qRetryCount,  \* the throttler Queue's retry count of each call's item
    settled,      \* how each run() promise settled
    writes,       \* how often op.result and op.error were assigned
    passed,       \* the opts.retryCodes each run() was called with
    perr,         \* parseErrorCode taken alone: its argument,
    pcode,        \* its return value,
    pphase        \* and whether it has been applied

vars == <<exec, retries, concurrency, pc, op, calls, attempts, thrown, active,
          waiting, qRetryCount, settled, writes, passed, perr, pcode, pphase>>

mainVars == <<exec, retries, concurrency, pc, op, calls, attempts, thrown,
              active, waiting, qRetryCount, settled, writes, passed>>

parseVars == <<perr, pcode, pphase>>

\* Variant: the retry counter starts at 1.
NewOpCountingFromOne(codes) ==
    [retryCodes |-> codes, result |-> NoResult, error |-> NoRef,
     retryCount |-> 1]

\* The Operation built by run(): { func, retryCodes [, retryCount: 0] }.
NewOp(codes) ==
    [retryCodes |-> codes, result |-> NoResult, error |-> NoRef,
     retryCount |-> 0]

\* The ways a run() promise is settled (or not yet).
Pending ==
    [kind |-> "pending", val |-> NoResult, ref |-> NoRef, label |-> "",
     ceiling |-> 0]
Value(v) == [Pending EXCEPT !.kind = "value", !.val = v]
Failure(ref) == [Pending EXCEPT !.kind = "failure", !.ref = ref]

\* new RetriesExhaustedError(name, totalRetries, lastTrialError)
RetriesExhaustedError(name, totalRetries, cause) ==
    [Pending EXCEPT !.kind = "exhausted", !.label = name,
                    !.ceiling = totalRetries, !.ref = cause]

\* One settled invocation of func: its value, or the failure object it raised
\* (as raised, as it is now, and how often its code field was written).
Resolved(v) ==
    [ok |-> TRUE, val |-> v, raised |-> NoCodeError, err |-> NoCodeError,
     writes |-> 0]
Rejected(raised, now, n) ==
    [ok |-> FALSE, val |-> NoResult, raised |-> raised, err |-> now,
     writes |-> n]

RECURSIVE SumActive(_, _)
SumActive(f, S) ==
    IF S = {} THEN 0
    ELSE LET i == CHOOSE j \in S : TRUE IN f[i] + SumActive(f, S \ {i})

\* Variant: one Operation kept on the executor and used by every run().
OpOfShared(i) == 1

\* The Operation the task of run() call i works on: the `op` its closure
\* (the item queue.run() was given) holds, built by that same call.
OpOf(i) == i

\* Variant: the InlineExecutor passes func through the handler too.
UsesHandlerAlways == TRUE

\* The queue-backed executors run func inside handler(op); InlineExecutor.run
\* calls func() itself and returns its promise.
UsesHandler == exec # "inline"

\* ------------------------------------------------------------- handler
\* try { op.result = await op.func(); }
handlerTry(o, v) == [o EXCEPT !.result = v]

\* Variant: err.code = code; op.error = err; come before the retry test.
handlerCatchStoresFirst(o, ref, err) ==
    LET code == parseErrorCode(err) IN
    [op |-> [o EXCEPT !.error = ref], err |-> Annotate(err, code),
     writes |-> 1, threw |-> Includes(o.retryCodes, code)]

\* Variant: err.code = code; comes before the retry test.
handlerCatchAnnotatesFirst(o, ref, err) ==
    LET code == parseErrorCode(err) IN
    IF Includes(o.retryCodes, code)
    THEN [op |-> o, err |-> Annotate(err, code), writes |-> 1, threw |-> TRUE]
    ELSE [op |-> [o EXCEPT !.error = ref], err |-> Annotate(err, code),
          writes |-> 1, threw |-> FALSE]

\* catch (err) { ... }: what becomes of the Operation and of the failure
\* object, and whether the handler's promise rejects.
handlerCatch(o, ref, err) ==
    LET code == parseErrorCode(err) IN
    IF Includes(o.retryCodes, code)
    THEN [op |-> o, err |-> err, writes |-> 0, threw |-> TRUE]
    ELSE [op |-> [o EXCEPT !.error = ref], err |-> Annotate(err, code),
          writes |-> 1, threw |-> FALSE]

\* Variant: the task awaits the handler inside the try block.
TaskAwaitsHandler == TRUE

\* The task's `try { return handler(op); } catch`: handler is an async
\* function, so the call never throws; it returns a promise, which leaves the
\* try block unawaited.  A rejection of that promise is not caught here.
TaskCatchesHandlerRejection == FALSE

\* Variant: run() looks at op alone, whatever became of the awaited promise.
RunReturnIgnoringRejection(o, rejection) ==
    IF o.error # NoRef THEN Failure(o.error) ELSE Value(o.result)

\* The tail of run(): the awaited queue promise rejected, or
\* if (op.error) throw op.error; return op.result.
RunReturn(o, rejection) ==
    IF rejection.kind # "pending" THEN rejection
    ELSE IF o.error # NoRef THEN Failure(o.error)
    ELSE Value(o.result)

\* ------------------------------------------------------------- Init
Init ==
    /\ exec \in {"rate", "queue", "inline"}
    /\ retries \in 0..MaxRetries
    /\ concurrency \in 1..MaxConcurrency
    /\ pc = [i \in Ops |-> "init"]
    /\ op = [i \in Ops |-> NewOp({})]
    /\ calls = [i \in Ops |-> 0]
    /\ attempts = [i \in Ops |-> <<>>]
    /\ thrown = [i \in Ops |-> NoRef]
    /\ active = [i \in Ops |-> 0]
    /\ waiting = <<>>
    /\ qRetryCount = [i \in Ops |-> 0]
    /\ settled = [i \in Ops |-> Pending]
    /\ writes = [i \in Ops |-> [result |-> 0, error |-> 0]]
    /\ passed = [i \in Ops |-> NoOpts]
    /\ perr = NoCodeError
    /\ pcode = Undefined
    /\ pphase = "off"

\* ------------------------------------------------------------- actions
\* The call whose task the queue starts next, its waiting tasks being w and
\* its slots a: the oldest waiting one when a slot is free, 0 when none is.
NextStarted(w, a) ==
    IF w # <<>> /\ SumActive(a, Ops) < concurrency THEN Head(w) ELSE 0

\* The queue, p, c, a and w being the step's outcome so far, runs the oldest
\* waiting task in the same job if it has a free slot: the task calls
\* handler(op), which invokes op.func().
QueueNext(p, c, a, w) ==
    LET j == NextStarted(w, a) IN
    IF j = 0
    THEN /\ pc' = p
         /\ calls' = c
         /\ active' = a
         /\ waiting' = w
    ELSE /\ pc' = [p EXCEPT ![j] = "running"]
         /\ calls' = [c EXCEPT ![j] = @ + 1]
         /\ active' = [a EXCEPT ![j] = @ + 1]
         /\ waiting' = Tail(w)

\* run(func, opts) up to its first await: the InlineExecutor invokes func; the
\* others build the Operation and hand it to the queue, which runs it at once
\* if it has a free slot.
Run(i, opts) ==
    /\ pc[i] = "init"
    /\ IF exec = "inline"
       THEN /\ opts = NoOpts
            /\ pc' = [pc EXCEPT ![i] = "running"]
            /\ calls' = [calls EXCEPT ![i] = 1]
            /\ UNCHANGED <<op, active, waiting>>
       ELSE /\ op' = [op EXCEPT ![OpOf(i)] = NewOp(retryCodes(opts))]
            /\ QueueNext([pc EXCEPT ![i] = "queued"], calls, active,
                         Append(waiting, i))
    /\ passed' = [passed EXCEPT ![i] = opts]
    /\ UNCHANGED <<exec, retries, concurrency, attempts, thrown,
                   qRetryCount, settled, writes, parseVars>>

\* func's promise fulfils with v.
FuncResolve(i, v) ==
    /\ pc[i] = "running"
    /\ attempts' = [attempts EXCEPT ![i] = Append(@, Resolved(v))]
    /\ IF ~UsesHandler
       THEN /\ settled' = [settled EXCEPT ![i] = Value(v)]
            /\ pc' = [pc EXCEPT ![i] = "done"]
            /\ UNCHANGED <<op, thrown, writes>>
       ELSE /\ op' = [op EXCEPT ![OpOf(i)] = handlerTry(@, v)]
            /\ writes' = [writes EXCEPT ![OpOf(i)].result = @ + 1]
            /\ thrown' = [thrown EXCEPT ![i] = NoRef]
            /\ pc' = [pc EXCEPT ![i] = "handled"]
            /\ settled' = settled
    /\ UNCHANGED <<exec, retries, concurrency, calls, active, waiting,
                   qRetryCount,
                   passed,
                   parseVars>>

\* func's promise rejects with a new failure object of shape e.
FuncReject(i, e) ==
    /\ pc[i] = "running"
    /\ LET ref == <<i, Len(attempts[i]) + 1>>
           h == handlerCatch(op[OpOf(i)], ref, e)
       IN IF ~UsesHandler
          THEN /\ attempts' = [attempts EXCEPT
                                 ![i] = Append(@, Rejected(e, e, 0))]
               /\ settled' = [settled EXCEPT ![i] = Failure(ref)]
               /\ pc' = [pc EXCEPT ![i] = "done"]
               /\ UNCHANGED <<op, thrown, writes>>
          ELSE /\ attempts' = [attempts EXCEPT
                                 ![i] = Append(@, Rejected(e, h.err, h.writes))]
               /\ op' = [op EXCEPT ![OpOf(i)] = h.op]
               /\ writes' = [writes EXCEPT ![OpOf(i)].error =
                               IF h.op.error # op[OpOf(i)].error
                               THEN @ + 1 ELSE @]
               /\ thrown' = [thrown EXCEPT
                               ![i] = IF h.threw THEN ref ELSE NoRef]
               /\ pc' = [pc EXCEPT ![i] = "handled"]
               /\ settled' = settled
    /\ UNCHANGED <<exec, retries, concurrency, calls, active, waiting,
                   qRetryCount,
                   passed,
                   parseVars>>

\* The executors that run their funcs through a queue and the handler.
QueueBacked == exec \in {"queue", "rate"}

\* RateLimitedExecutor: what the promise of queue.add(task) settles with once
\* the slot is free: nothing when the task's promise fulfilled, the handler's
\* own rejection when task returned it, the error of line 113 when the catch
\* clause raised it.
TaskRejection(i) ==
    IF thrown[i] = NoRef
    THEN Pending
    ELSE IF TaskCatchesHandlerRejection
         THEN RetriesExhaustedError("rateLimitedExecutor", retries, thrown[i])
         ELSE Failure(thrown[i])

\* QueueExecutor: what the promise of queue.run(op) settles with once the
\* slot is free: nothing when the handler returned, the Queue's
\* retries-exhausted error when it raised at the ceiling.
QueueRejection(i) ==
    IF thrown[i] = NoRef
    THEN Pending
    ELSE RetriesExhaustedError("queue", retries, thrown[i])

\* Variant: the task hands itself to the queue again without waiting for the
\* handler's promise to settle.
TaskSettleResubmitsEarly(i) ==
    /\ exec = "rate"
    /\ pc[i] = "running"
    /\ calls[i] <= retries
    /\ QueueNext([pc EXCEPT ![i] = "queued"], calls, active,
                 Append(waiting, i))
    /\ UNCHANGED <<exec, retries, concurrency, op, attempts, thrown,
                   qRetryCount, settled, writes, passed, parseVars>>

\* RateLimitedExecutor: the task's promise settles as the handler's did; the
\* PQueue frees the slot, settles add() and runs the oldest waiting task.
\* run() is still suspended at its await: the slot is free, the run() promise
\* pending.
TaskSettle(i) ==
    /\ exec = "rate"
    /\ pc[i] = "handled"
    /\ active[i] > 0
    /\ IF /\ thrown[i] # NoRef
          /\ TaskCatchesHandlerRejection
          /\ ~(op[OpOf(i)].retryCount > retries)
       THEN /\ op' = [op EXCEPT ![OpOf(i)].retryCount = @ + 1]
            /\ QueueNext([pc EXCEPT ![i] = "queued"], calls, active,
                         Append(waiting, i))
       ELSE /\ op' = op
            /\ QueueNext(pc, calls, [active EXCEPT ![i] = 0], waiting)
    /\ UNCHANGED <<exec, retries, concurrency, attempts, thrown,
                   qRetryCount, settled, writes, passed,
                   parseVars>>

\* QueueExecutor: the handler raised and the throttler Queue, below its retry
\* ceiling, runs the handler on the same Operation again.
QueueRetry(i) ==
    /\ exec = "queue"
    /\ pc[i] = "handled"
    /\ active[i] > 0
    /\ thrown[i] # NoRef
    /\ qRetryCount[i] < retries
    /\ qRetryCount' = [qRetryCount EXCEPT ![i] = @ + 1]
    /\ pc' = [pc EXCEPT ![i] = "running"]
    /\ calls' = [calls EXCEPT ![i] = @ + 1]
    /\ UNCHANGED <<exec, retries, concurrency, op, attempts, thrown, active,
                   waiting, settled, writes, passed,
                   parseVars>>

\* QueueExecutor: the Queue is done with the item (the handler returned, or it
\* raised at the retry ceiling), frees the slot, settles queue.run(op) and
\* runs the oldest waiting item. run() is still suspended at its await.
QueueSettle(i) ==
    /\ exec = "queue"
    /\ pc[i] = "handled"
    /\ active[i] > 0
    /\ thrown[i] # NoRef => qRetryCount[i] >= retries
    /\ QueueNext(pc, calls, [active EXCEPT ![i] = 0], waiting)
    /\ UNCHANGED <<exec, retries, concurrency, op, attempts,
                   thrown, qRetryCount, settled, writes, passed,
                   parseVars>>

\* Both queue-backed executors: run() resumes after its await, in a job of its
\* own after the one that settled the awaited promise, and settles its promise
\* from that promise's outcome and the Operation.
RunResume(i) ==
    /\ QueueBacked
    /\ pc[i] = "handled"
    /\ active[i] = 0
    /\ settled' = [settled EXCEPT ![i] =
          RunReturn(op[OpOf(i)],
                    IF exec = "queue" THEN QueueRejection(i)
                                      ELSE TaskRejection(i))]
    /\ pc' = [pc EXCEPT ![i] = "done"]
    /\ UNCHANGED <<exec, retries, concurrency, op, calls, attempts, thrown,
                   active, waiting, qRetryCount, writes, passed,
                   parseVars>>

Next ==
    \E i \in Ops :
        \/ \E opts \in OptsOf(i) : Run(i, opts)
        \/ \E v \in ValuesOf(i) : FuncResolve(i, v)
        \/ \E e \in ErrorsOf(i) : FuncReject(i, e)
        \/ TaskSettle(i)
        \/ QueueRetry(i)
        \/ QueueSettle(i)
        \/ RunResume(i)

Spec == Init /\ [][Next]_vars

\* The scheduling the code relies on: every func settles, and settled promises
\* run their continuations.
Fairness ==
    \A i \in Ops :
        /\ WF_vars((\E v \in ValuesOf(i) : FuncResolve(i, v))
                   \/ (\E e \in ErrorsOf(i) : FuncReject(i, e)))
        /\ WF_vars(TaskSettle(i))
        /\ WF_vars(QueueRetry(i))
        /\ WF_vars(QueueSettle(i))
        /\ WF_vars(RunResume(i))

FairSpec == Spec /\ Fairness

\* ------------------------------------------------------------- parseErrorCode alone
ParseInit ==
    /\ exec = "inline"
    /\ retries = 0
    /\ concurrency = 1
    /\ pc = [i \in Ops |-> "init"]
    /\ op = [i \in Ops |-> NewOp({})]
    /\ calls = [i \in Ops |-> 0]
    /\ attempts = [i \in Ops |-> <<>>]
    /\ thrown = [i \in Ops |-> NoRef]
    /\ active = [i \in Ops |-> 0]
    /\ waiting = <<>>
    /\ qRetryCount = [i \in Ops |-> 0]
    /\ settled = [i \in Ops |-> Pending]
    /\ writes = [i \in Ops |-> [result |-> 0, error |-> 0]]
    /\ passed = [i \in Ops |-> NoOpts]
    /\ perr \in AllErrors
    /\ pcode = Undefined
    /\ pphase = "input"

Parse ==
    /\ pphase = "input"
    /\ pcode' = parseErrorCode(perr)
    /\ pphase' = "parsed"
    /\ UNCHANGED <<perr, mainVars>>

ParseNext == Parse

ParseSpec == ParseInit /\ [][ParseNext]_vars

\* ------------------------------------------------------------- properties
\* The k-th invocation of call i's func failed, and its failure classifies as
\* retryable (as terminal) under the call's retry codes.
RetryableFailure(i, k) ==
    /\ ~attempts[i][k].ok
    /\ parseErrorCode(attempts[i][k].raised) \in op[i].retryCodes

TerminalFailure(i, k) ==
    /\ ~attempts[i][k].ok
    /\ parseErrorCode(attempts[i][k].raised) \notin op[i].retryCodes

AllRetryableSoFar(i) ==
    /\ attempts[i] # <<>>
    /\ \A k \in DOMAIN attempts[i] : RetryableFailure(i, k)

\* C1: a RateLimitedExecutor with ceiling R whose func fails with a retryable
\* code on every invocation invokes func exactly R+1 times, and run() then
\* rejects with the retries-exhausted failure.
C1_ExhaustedAfterRPlusOneCalls ==
    \A i \in Ops :
        (exec = "rate" /\ pc[i] = "done" /\ AllRetryableSoFar(i))
        => /\ calls[i] = retries + 1
           /\ settled[i].kind = "exhausted"

\* C2: a RateLimitedExecutor with ceiling R whose func fails with a retryable
\* code on its first k < R+1 invocations and then succeeds with v resolves
\* run() with v, retryCount being k: so run() does not settle after fewer
\* than R+1 retryable failures and no success, and a success after k
\* retryable failures resolves run() with its value and retryCount = k.
C2_ResolvesAfterRetryableFailures ==
    \A i \in Ops :
        (exec = "rate" /\ pc[i] = "done")
        => /\ AllRetryableSoFar(i) => Len(attempts[i]) >= retries + 1
           /\ \A n \in DOMAIN attempts[i] :
                ( /\ attempts[i][n].ok
                  /\ n - 1 <= retries
                  /\ \A k \in 1..(n - 1) : RetryableFailure(i, k) )
                => /\ settled[i] = Value(attempts[i][n].val)
                   /\ op[i].retryCount = n - 1

\* C3: run() of a queue-backed executor settles in one of three ways only: it
\* resolves with the success value, rejects with a failure whose classified
\* code is not a retry code, or rejects with a retries-exhausted failure; it
\* never rejects with a bare failure whose code is a retry code.
C3_SettlesOneOfThreeWays ==
    \A i \in Ops :
        (QueueBacked /\ pc[i] = "done")
        => \/ /\ settled[i].kind = "value"
              /\ attempts[i][Len(attempts[i])].ok
              /\ settled[i].val = attempts[i][Len(attempts[i])].val
           \/ /\ settled[i].kind = "failure"
              /\ settled[i].ref[1] = i
              /\ TerminalFailure(i, settled[i].ref[2])
           \/ settled[i].kind = "exhausted"

\* C4: when the first invocation of func fails with a failure whose classified
\* code c is not a retry code, both queue-backed executors invoke func exactly
\* once, and run() rejects with that very failure object, its code field
\* being c, not with a retries-exhausted failure.
C4_TerminalFailureRejectsOnce ==
    \A i \in Ops :
        (QueueBacked /\ Len(attempts[i]) >= 1 /\ TerminalFailure(i, 1))
        => /\ calls[i] = 1
           /\ pc[i] \in {"handled", "done"}
           /\ pc[i] = "done"
              => /\ settled[i] = Failure(<<i, 1>>)
                 /\ attempts[i][1].err.code
                      = parseErrorCode(attempts[i][1].raised)

\* A 404 under the default retry codes has been rejected by run().
C4_Witness ==
    \E i \in Ops :
        /\ QueueBacked
        /\ pc[i] = "done"
        /\ op[i].retryCodes = DEFAULT_RETRY_CODES
        /\ attempts[i][1].raised.status = 404
        /\ attempts[i][1].raised.code = Undefined
        /\ settled[i].kind = "failure"

\* run() of call i has settled in one of the three terminal ways.
TerminalOutcome(i) ==
    /\ pc[i] = "done"
    /\ \/ settled[i].kind = "value"
       \/ settled[i].kind = "exhausted"
       \/ /\ settled[i].kind = "failure"
          /\ TerminalFailure(i, settled[i].ref[2])

\* C5: under the queue's and the promises' fairness every run() of a
\* RateLimitedExecutor eventually settles in a terminal state: success,
\* terminal failure or retries-exhausted.
C5_EventuallyTerminal ==
    \A i \in Ops :
        (exec = "rate" /\ pc[i] # "init") ~> TerminalOutcome(i)

\* C6: no run() of a RateLimitedExecutor with ceiling R invokes func more
\* than R+1 times.
C6_AtMostRPlusOneCalls ==
    \A i \in Ops : exec = "rate" => calls[i] <= retries + 1

\* A run() with ceiling 0 has settled after a retryable failure of the one
\* invocation the ceiling allows.
C6_Witness ==
    \E i \in Ops :
        /\ exec = "rate"
        /\ retries = 0
        /\ pc[i] = "done"
        /\ calls[i] = 1
        /\ RetryableFailure(i, 1)

ResultSet(i) == op[i].result # NoResult
ErrorSet(i) == op[i].error # NoRef

\* C7: on both queue-backed executors neither result nor error is set while
\* run() is pending (here: up to the handler's last return), exactly one of
\* them is set once run() has settled, also when it rejected after exhausted
\* retries or with a retryable failure, and each is written at most once.
C7_ExactlyOneSetOnceSettled ==
    \A i \in Ops :
        QueueBacked
        => /\ pc[i] \in {"init", "queued", "running"}
              => ~ResultSet(i) /\ ~ErrorSet(i)
           /\ pc[i] = "done" => (ResultSet(i) /\ ~ErrorSet(i))
                                \/ (~ResultSet(i) /\ ErrorSet(i))
           /\ writes[i].result <= 1
           /\ writes[i].error <= 1

\* C7 as amended: neither is set until an invocation of func has succeeded or
\* failed terminally, they are never both set, each is written at most once;
\* once run() has resolved result alone is set, once it has rejected with the
\* terminal failure error alone is set (to that failure), and once it has
\* rejected with a retryable or a retries-exhausted failure neither is set.
C7_Amended ==
    \A i \in Ops :
        QueueBacked
        => /\ pc[i] \in {"init", "queued", "running"}
              => ~ResultSet(i) /\ ~ErrorSet(i)
           /\ ~(ResultSet(i) /\ ErrorSet(i))
           /\ writes[i].result <= 1
           /\ writes[i].error <= 1
           /\ (pc[i] = "done" /\ settled[i].kind = "value")
              => ResultSet(i) /\ ~ErrorSet(i)
           /\ (pc[i] = "done" /\ settled[i].kind = "failure"
                 /\ TerminalFailure(i, settled[i].ref[2]))
              => ~ResultSet(i) /\ op[i].error = settled[i].ref
           /\ (pc[i] = "done" /\ settled[i].kind = "failure"
                 /\ RetryableFailure(i, settled[i].ref[2]))
              => ~ResultSet(i) /\ ~ErrorSet(i)
           /\ (pc[i] = "done" /\ settled[i].kind = "exhausted")
              => ~ResultSet(i) /\ ~ErrorSet(i)

\* run() of a RateLimitedExecutor has rejected with a retryable failure, the
\* Operation holding neither a result nor an error.
C7_Witness ==
    \E i \in Ops :
        /\ exec = "rate"
        /\ pc[i] = "done"
        /\ settled[i].kind = "failure"
        /\ RetryableFailure(i, settled[i].ref[2])
        /\ ~ResultSet(i)
        /\ ~ErrorSet(i)

\* The five lookup fields in parseErrorCode's priority order.
Fields(err) ==
    <<err.status, err.code, err.contextStatusCode, err.originalCode,
      err.originalContextStatusCode>>

Min(S) == CHOOSE m \in S : \A n \in S : m <= n

\* C8: the extracted code is the value of the first of the five fields that
\* is present, 0 included, and undefined only when none is present.
C8_FirstPresentWins ==
    pphase = "parsed"
    => LET f == Fields(perr)
           present == {k \in 1..5 : f[k] # Undefined}
       IN pcode = IF present = {} THEN Undefined ELSE f[Min(present)]

\* C8 as amended: the extracted code is the value of the first of the five
\* fields that holds a number other than 0; when no field does, it is what
\* the last field, original.context.response.statusCode, holds: 0, or
\* undefined when that field is absent.
C8_Amended ==
    pphase = "parsed"
    => LET f == Fields(perr)
           nonzero == {k \in 1..5 : f[k] # Undefined /\ f[k] # 0}
       IN pcode = IF nonzero = {} THEN f[5] ELSE f[Min(nonzero)]

\* A status of 0 was passed over for the code field's 429.
C8_Witness ==
    /\ pphase = "parsed"
    /\ perr.status = 0
    /\ perr.code = 429
    /\ pcode = 429

\* C9: whenever the handler classifies a failure raised by func, the resolved
\* code is written onto the failure's code field exactly once, when the
\* failure is retryable (and re-raised) as when it is not (and stored).
C9_CodeWrittenOnEveryFailure ==
    \A i \in Ops :
        QueueBacked
        => \A k \in DOMAIN attempts[i] :
              ~attempts[i][k].ok
              => /\ attempts[i][k].writes = 1
                 /\ attempts[i][k].err.code
                      = parseErrorCode(attempts[i][k].raised)

\* C9 as amended: the code is written exactly once onto a failure classified
\* non-retryable, which is then stored in error with its other fields as
\* raised; a failure classified retryable is re-raised as it was raised,
\* nothing written onto it.
C9_Amended ==
    \A i \in Ops :
        QueueBacked
        => \A k \in DOMAIN attempts[i] :
              /\ TerminalFailure(i, k)
                 => /\ attempts[i][k].writes = 1
                    /\ attempts[i][k].err
                         = [attempts[i][k].raised EXCEPT
                              !.code = parseErrorCode(attempts[i][k].raised)]
                    /\ op[i].error = <<i, k>>
              /\ RetryableFailure(i, k)
                 => /\ attempts[i][k].writes = 0
                    /\ attempts[i][k].err = attempts[i][k].raised

\* The handler has re-raised a retryable failure whose code sits in
\* original.context.response.statusCode, and has stored a terminal one whose
\* code field held another number than its status.
C9_Witness ==
    \E i \in Ops :
        /\ exec = "queue"
        /\ Len(attempts[i]) = 2
        /\ RetryableFailure(i, 1)
        /\ attempts[i][1].raised.originalContextStatusCode = 409
        /\ attempts[i][1].err.code = Undefined
        /\ TerminalFailure(i, 2)
        /\ attempts[i][2].raised.code = 429
        /\ attempts[i][2].err.code = 404

\* C10: a failure with none of the five fields is non-retryable under every
\* retry-code set: the handler stores it in error and returns, func is not
\* invoked again, and run() rejects with that failure.
C10_NoCodeIsTerminal ==
    \A i \in Ops :
        QueueBacked
        => \A k \in DOMAIN attempts[i] :
              (~attempts[i][k].ok /\ attempts[i][k].raised = NoCodeError)
              => /\ op[i].error = <<i, k>>
                 /\ thrown[i] = NoRef
                 /\ calls[i] = k
                 /\ pc[i] \in {"handled", "done"}
                 /\ pc[i] = "done" => settled[i] = Failure(<<i, k>>)

\* run() with an empty retry-code list has rejected with a failure that has
\* no code.
C10_Witness ==
    \E i \in Ops :
        /\ QueueBacked
        /\ op[i].retryCodes = {}
        /\ pc[i] = "done"
        /\ attempts[i][1].raised = NoCodeError
        /\ settled[i] = Failure(<<i, 1>>)

\* The failed invocations of call i's func so far.
FailedAttempts(i) == {k \in DOMAIN attempts[i] : ~attempts[i][k].ok}

\* C11: two run() calls on one executor are independent under every
\* interleaving: a call's Operation exists only from its own run() on and
\* carries its own retry codes; the result or error on it, and what its run()
\* resolves or rejects with, come from invocations of its own func; and its
\* retryCount counts no more than its own failed invocations.
C11_CallsAreIndependent ==
    \A i \in Ops :
        /\ settled[i].kind = "value"
           => \E k \in DOMAIN attempts[i] :
                 attempts[i][k].ok /\ attempts[i][k].val = settled[i].val
        /\ settled[i].kind \in {"failure", "exhausted"}
           => settled[i].ref[1] = i /\ settled[i].ref[2] \in FailedAttempts(i)
        /\ QueueBacked
           => /\ pc[i] = "init" => op[i] = NewOp({})
              /\ pc[i] # "init" => op[i].retryCodes = retryCodes(passed[i])
              /\ ResultSet(i)
                 => \E k \in DOMAIN attempts[i] :
                       attempts[i][k].ok /\ attempts[i][k].val = op[i].result
              /\ ErrorSet(i)
                 => op[i].error[1] = i /\ op[i].error[2] \in FailedAttempts(i)
              /\ op[i].retryCount <= Cardinality(FailedAttempts(i))

\* While call 1 is in its second invocation after a retryable failure, call 2
\* has resolved with its own value, nothing of it on call 1's Operation.
C11_Witness ==
    /\ NumOps >= 2
    /\ exec = "queue"
    /\ pc[1] = "running"
    /\ calls[1] = 2
    /\ ~ResultSet(1)
    /\ pc[2] = "done"
    /\ settled[2] = Value("ok2")
    /\ op[2].result = "ok2"

\* The invocations of call i's func that have not settled yet.
InFlight(i) == calls[i] - Len(attempts[i])

\* C12: on both queue-backed executors, whatever the queue's concurrency, at
\* most one invocation of func is in flight per run() call: an attempt starts
\* only once the previous attempt of that call has settled.
C12_OneInvocationInFlight ==
    \A i \in Ops :
        QueueBacked
        => /\ InFlight(i) \in {0, 1}
           /\ InFlight(i) = 1 <=> pc[i] = "running"

\* With room for two tasks in the queue, a call's second attempt is in flight
\* after its first has settled.
C12_Witness ==
    \E i \in Ops :
        /\ exec = "queue"
        /\ concurrency >= 2
        /\ pc[i] = "running"
        /\ calls[i] = 2
        /\ Len(attempts[i]) = 1

\* C13: the active retry codes of a run() are exactly {429, 409, 503} when
\* the caller passes none and exactly the caller's list otherwise, the
\* defaults replaced: under a list without 429 a 429 failure is terminal
\* (annotated, stored, func not invoked again), and under the empty list
\* every failure is.
C13_RetryCodesDefaultOrCallers ==
    \A i \in Ops :
        (QueueBacked /\ pc[i] # "init")
        => /\ passed[i] = NoOpts => op[i].retryCodes = {429, 409, 503}
           /\ passed[i] # NoOpts => op[i].retryCodes = passed[i]
           /\ \A k \in FailedAttempts(i) :
                ( /\ passed[i] # NoOpts
                  /\ \/ passed[i] = {}
                     \/ /\ parseErrorCode(attempts[i][k].raised) = 429
                        /\ 429 \notin passed[i] )
                => /\ attempts[i][k].writes = 1
                   /\ op[i].error = <<i, k>>
                   /\ thrown[i] = NoRef
                   /\ calls[i] = k

\* Under the caller's list [404], run() has rejected with a 429 failure after
\* one invocation.
C13_Witness ==
    \E i \in Ops :
        /\ QueueBacked
        /\ passed[i] = {404}
        /\ pc[i] = "done"
        /\ calls[i] = 1
        /\ attempts[i][1].raised.status = 429
        /\ settled[i] = Failure(<<i, 1>>)

\* The task of call i is handed to the queue again (RETRY_SCHEDULED): the
\* catch clause of lines 111-118 has run its increment and its add(task),
\* and the task waits or, a slot being free, runs.
Resubmission(i) ==
    /\ exec = "rate"
    /\ pc[i] = "handled"
    /\ pc'[i] \in {"queued", "running"}

\* The handler has re-raised a retryable failure of call i's last invocation
\* while retryCount is above the ceiling.
RetryableAboveCeiling(i) ==
    /\ exec = "rate"
    /\ pc[i] \in {"handled", "done"}
    /\ thrown[i] = <<i, Len(attempts[i])>>
    /\ op[i].retryCount > retries

\* C14: in the RateLimitedExecutor the task is resubmitted only in a state
\* where retryCount <= ceiling; and a retryable failure observed with
\* retryCount already above the ceiling is answered by no resubmission and a
\* rejection of run() with a retries-exhausted failure carrying
\* "rateLimitedExecutor", the ceiling and the last failure as cause.
C14_ResubmitsOnlyWithinCeiling ==
    /\ [][\A i \in Ops :
            /\ Resubmission(i) => op[i].retryCount <= retries
            /\ RetryableAboveCeiling(i)
               => pc'[i] \notin {"queued", "running"}]_vars
    /\ [](\A i \in Ops :
            (RetryableAboveCeiling(i) /\ pc[i] = "done")
            => settled[i] = RetriesExhaustedError("rateLimitedExecutor",
                                retries, <<i, Len(attempts[i])>>))

\* The cases C14 speaks of: a task handed to the queue again after an
\* invocation of its func, or a retryable failure above the ceiling.
C14_CaseOccurs ==
    \E i \in Ops :
        \/ exec = "rate" /\ pc[i] = "queued" /\ calls[i] >= 1
        \/ exec = "rate" /\ calls[i] >= 2
        \/ RetryableAboveCeiling(i)

\* C15: InlineExecutor.run(func) invokes func exactly once and settles as
\* func's promise does: it resolves with func's value or rejects with func's
\* failure, nothing written onto it, and func is not invoked again, whatever
\* code the failure carries.
C15_InlinePassesThrough ==
    \A i \in Ops :
        exec = "inline"
        => /\ calls[i] <= 1
           /\ pc[i] = "done" => calls[i] = 1
           /\ \A k \in DOMAIN attempts[i] :
                /\ k = 1
                /\ pc[i] = "done"
                /\ attempts[i][k].writes = 0
                /\ attempts[i][k].err = attempts[i][k].raised
                /\ settled[i] = IF attempts[i][k].ok
                                THEN Value(attempts[i][k].val)
                                ELSE Failure(<<i, k>>)

\* An InlineExecutor's run() has rejected with a 429 failure after the one
\* invocation of func.
C15_Witness ==
    \E i \in Ops :
        /\ exec = "inline"
        /\ pc[i] = "done"
        /\ calls[i] = 1
        /\ attempts[i][1].raised.status = 429
        /\ settled[i] = Failure(<<i, 1>>)

\* retryCount agrees with the n invocations of func so far: 0 before the
\* first, then n - 1, or n while a resubmitted task waits in the queue.
RetryCountMatchesCalls(i) ==
    /\ calls[i] = 0 => op[i].retryCount = 0
    /\ calls[i] >= 1
       => \/ op[i].retryCount = calls[i] - 1
          \/ op[i].retryCount = calls[i] /\ pc[i] = "queued"

\* C16: in the RateLimitedExecutor retryCount starts at 0, is n - 1 once func
\* has been invoked n >= 1 times, or n between a retryable failure and the
\* start of the resubmitted attempt, and never decreases.
C16_RetryCountTracksRetries ==
    /\ [](\A i \in Ops : exec = "rate" => RetryCountMatchesCalls(i))
    /\ [][\A i \in Ops :
            exec = "rate" => op'[i].retryCount >= op[i].retryCount]_vars

\* A RateLimitedExecutor's func has been invoked once and has failed with a
\* retryable code, retryCount being 0.
C16_Witness ==
    \E i \in Ops :
        /\ exec = "rate"
        /\ calls[i] = 1
        /\ pc[i] = "handled"
        /\ RetryableFailure(i, 1)
        /\ op[i].retryCount = 0

\* The first n - 1 invocations of call i's func failed with retryable codes
\* and the n-th succeeded, n - 1 being within the Queue's retries.
RecoversAt(i, n) ==
    /\ n \in DOMAIN attempts[i]
    /\ attempts[i][n].ok
    /\ n - 1 <= retries
    /\ \A k \in 1..(n - 1) : RetryableFailure(i, k)

\* C17: on a QueueExecutor whose Queue re-runs the handler when it raises,
\* a func that fails with retryable codes k times (k within the Queue's
\* retries) and then succeeds with v is invoked exactly k+1 times on the one
\* Operation; the handler raises on each failure and stores nothing, and
\* run() resolves with v, error unset.
C17_QueueRetriesUntilSuccess ==
    \A i \in Ops :
        exec = "queue"
        => /\ AllRetryableSoFar(i)
              => /\ ~ResultSet(i) /\ ~ErrorSet(i)
                 /\ thrown[i] = <<i, Len(attempts[i])>>
                 /\ \A k \in DOMAIN attempts[i] :
                       attempts[i][k].err = attempts[i][k].raised
           /\ \A n \in DOMAIN attempts[i] :
                RecoversAt(i, n)
                => /\ calls[i] = n
                   /\ Len(attempts[i]) = n
                   /\ op[i].result = attempts[i][n].val
                   /\ ~ErrorSet(i)
                   /\ writes[i] = [result |-> 1, error |-> 0]
                   /\ pc[i] \in {"handled", "done"}
                   /\ pc[i] = "done" => settled[i] = Value(attempts[i][n].val)

\* A QueueExecutor's run() has resolved with the value of the second
\* invocation, the first having failed with a retryable code.
C17_Witness ==
    \E i \in Ops :
        /\ exec = "queue"
        /\ RecoversAt(i, 2)
        /\ pc[i] = "done"
        /\ settled[i] = Value(attempts[i][2].val)

\* C18: terminal states are absorbing on both queue-backed executors: once
\* the handler has stored a result or an error on an Operation, func is not
\* invoked again for it and the Operation (result, error, retryCount) no
\* longer changes.
C18_StoredOutcomeIsFinal ==
    [][\A i \in Ops :
         (QueueBacked /\ (ResultSet(i) \/ ErrorSet(i)))
         => calls'[i] = calls[i] /\ op'[i] = op[i]]_vars

\* run() has settled on an Operation whose error the handler stored after a
\* retried attempt, while another call is still on its way.
C18_Witness ==
    \E i, j \in Ops :
        /\ exec = "queue"
        /\ ErrorSet(i)
        /\ calls[i] = 2
        /\ pc[i] = "done"
        /\ pc[j] = "running"

\* C19: run() of a queue-backed executor fulfils only when the last
\* invocation of its func succeeded, and then with that invocation's value;
\* after a last invocation that failed, with a retryable code, a
\* non-retryable one or none, it does not fulfil.
C19_ResolvesOnlyAfterSuccess ==
    \A i \in Ops :
        (QueueBacked /\ pc[i] = "done")
        => /\ settled[i].kind # "pending"
           /\ attempts[i] # <<>>
           /\ settled[i].kind = "value"
              <=> attempts[i][Len(attempts[i])].ok
           /\ settled[i].kind = "value"
              => settled[i].val = attempts[i][Len(attempts[i])].val

\* A RateLimitedExecutor's run() has rejected, not fulfilled, after a
\* retryable failure that left result and error unset.
C19_Witness ==
    \E i \in Ops :
        /\ exec = "rate"
        /\ pc[i] = "done"
        /\ RetryableFailure(i, Len(attempts[i]))
        /\ op[i].result = NoResult
        /\ op[i].error = NoRef
        /\ settled[i].kind = "failure"

====
